---- MODULE Spec2Model ----
(***************************************************************************)
(* Model of the error-event pipeline of model/error/event.go:              *)
(* DecodeEvent -> Event.Transform (counters, fields, updateCulprit,        *)
(* calcGroupingKey).                                                       *)
(*                                                                         *)
(* Go strings are byte sequences (tuples of 0..255), so that concatenation *)
(* into the digest and the int -> string conversion are computed, not      *)
(* assumed.  A Go pointer is a tuple of length 0 (nil) or 1 (the pointee). *)
(***************************************************************************)
EXTENDS Integers, Sequences, FiniteSets, TLC

VARIABLES
    pc,                 \* handler -> position in its request
    args,               \* handler -> arguments of the pending DecodeEvent call
    tctx,               \* handler -> transform.Context of the request
    event,              \* handler -> *Event returned by DecodeEvent, mutated by Transform
    derr,               \* handler -> error returned by DecodeEvent
    gkey,               \* handler -> the groupingKey struct of the last calcGroupingKey
    doc,                \* handler -> the beat.Event returned by Transform
    prev,               \* handler -> what the handler's previous request produced
    transformations,    \* monitoring.Int "transformations"
    stacktraceCounter,  \* monitoring.Int "stacktraces"
    frameCounter,       \* monitoring.Int "frames"
    completed,          \* history: totals over the Events whose Transform has returned
    clock               \* source of tctx.RequestTime

vars == <<pc, args, tctx, event, derr, gkey, doc, prev,
          transformations, stacktraceCounter, frameCounter, completed, clock>>

----------------------------------------------------------------------------
(* Bounds of the model *)

\* Number of concurrently executing request handlers.
NumHandlers == 2
\* Longest stacktrace a client sends in the grouping and culprit inputs.
MaxFrames == 2
\* Longest stacktrace in the inputs of the two-event comparison.
MaxPairFrames == 1

----------------------------------------------------------------------------
(* Go values *)

Nil == <<>>
Ptr(v) == <<v>>
IsNil(p) == Len(p) = 0
Deref(p) == p[1]

\* string literals used by the inputs
sEmpty == <<>>
sA == <<97>>
sB == <<98>>
sF == <<102>>
sG == <<103>>
sI == <<105>>
sL == <<108>>
sM == <<109>>
sN == <<110>>
sP == <<112>>
sQ == <<113>>
sT == <<84>>
sIn == <<32, 105, 110, 32>>   \* " in "

\* A Go slice m.Stacktrace: nil, or a (possibly empty) sequence of frames.
NilStacktrace == [null |-> TRUE, frames |-> <<>>]
MkStacktrace(frs) == [null |-> FALSE, frames |-> frs]
len(st) == Len(st.frames)

\* time.Time: the zero value, or time.Unix(sec, nsec).
ZeroTime == <<>>
Unix(sec, nsec) == <<sec, nsec>>
IsZero(t) == t = ZeroTime

\* string(n) for an integer n: the UTF-8 encoding of the rune n, and of
\* U+FFFD for a value that is no valid code point.
RuneString(n) ==
    IF n < 0 \/ n > 1114111 \/ (n >= 55296 /\ n <= 57343)
        THEN <<239, 191, 189>>
    ELSE IF n < 128 THEN <<n>>
    ELSE IF n < 2048 THEN <<192 + (n \div 64), 128 + (n % 64)>>
    ELSE IF n < 65536
        THEN <<224 + (n \div 4096), 128 + ((n \div 64) % 64), 128 + (n % 64)>>
    ELSE <<240 + (n \div 262144), 128 + ((n \div 4096) % 64),
           128 + ((n \div 64) % 64), 128 + (n % 64)>>

\* strconv.Itoa(n) for n >= 0: the decimal digits of n.
RECURSIVE Itoa(_)
Itoa(n) == IF n < 10 THEN <<48 + n>> ELSE Itoa(n \div 10) \o <<48 + (n % 10)>>

----------------------------------------------------------------------------
(* groupingKey: the running digest and the empty flag *)

\* hash is the byte string written into the MD5 state so far; writes is the
\* sequence of io.WriteString calls that produced it.
newGroupingKey == [hash |-> <<>>, empty |-> TRUE, writes |-> <<>>]

\* k.add(s): <<ok, k'>>
add(k, s) ==
    IF IsNil(s) THEN <<FALSE, k>>
    ELSE <<TRUE, [hash |-> k.hash \o Deref(s), empty |-> FALSE,
                  writes |-> Append(k.writes, Deref(s))]>>

addEither(k, s1, s2) ==
    IF add(k, s1)[1] THEN add(k, s1)[2] ELSE add(k, Ptr(s2))[2]

\* hex.EncodeToString(md5(written bytes)).  MD5 is taken as collision free:
\* the digest is represented by the bytes it was computed from.
String(k) == <<"md5", k.hash>>

\* Mutant: the Log's stacktrace is used only when there is no Exception.
ActiveStacktracePreferException(e) ==
    IF ~IsNil(e.Exception) THEN Deref(e.Exception).Stacktrace
    ELSE IF ~IsNil(e.Log) THEN Deref(e.Log).Stacktrace
    ELSE NilStacktrace

\* The stacktrace the frame loop ranges over.
ActiveStacktrace(e) ==
    LET st0 == IF ~IsNil(e.Exception) THEN Deref(e.Exception).Stacktrace
               ELSE NilStacktrace
    IN  IF ~IsNil(e.Log) /\ (st0.null \/ len(st0) = 0)
            THEN Deref(e.Log).Stacktrace
        ELSE st0

\* k.addEither(fr.Function, string(fr.Lineno))
LinenoString(n) == RuneString(n)

AddFrame(k, fr) ==
    IF fr.ExcludeFromGrouping THEN k
    ELSE addEither(addEither(k, fr.Module, fr.Filename),
                   fr.Function, LinenoString(fr.Lineno))

RECURSIVE AddFrames(_, _)
AddFrames(k, frs) ==
    IF frs = <<>> THEN k ELSE AddFrames(AddFrame(k, Head(frs)), Tail(frs))

\* Mutant: the exception message is hashed along with the type.
AddHeadsMessage(k, e) ==
    LET k0 == IF ~IsNil(e.Exception) THEN add(k, Deref(e.Exception).Message)[2] ELSE k
        k1 == IF ~IsNil(e.Exception) THEN add(k0, Deref(e.Exception).Type)[2] ELSE k0
    IN  IF ~IsNil(e.Log) THEN add(k1, Deref(e.Log).ParamMessage)[2] ELSE k1

\* lines 377-387: exception type and log param message
AddHeads(k, e) ==
    LET k1 == IF ~IsNil(e.Exception) THEN add(k, Deref(e.Exception).Type)[2] ELSE k
    IN  IF ~IsNil(e.Log) THEN add(k1, Deref(e.Log).ParamMessage)[2] ELSE k1

\* Mutant: the message is fed whether or not the digest is still empty.
AddFallbackAlways(k, e) ==
    IF ~IsNil(e.Exception) THEN add(k, Deref(e.Exception).Message)[2]
    ELSE IF ~IsNil(e.Log) THEN add(k, Ptr(Deref(e.Log).Message))[2]
    ELSE k

\* lines 396-402: the message fallback
AddFallback(k, e) ==
    IF k.empty
        THEN IF ~IsNil(e.Exception) THEN add(k, Deref(e.Exception).Message)[2]
             ELSE IF ~IsNil(e.Log) THEN add(k, Ptr(Deref(e.Log).Message))[2]
             ELSE k
    ELSE k

\* The groupingKey struct when calcGroupingKey returns.
GroupingKeyOf(e) ==
    AddFallback(AddFrames(AddHeads(newGroupingKey, e), ActiveStacktrace(e).frames), e)

calcGroupingKey(e) == String(GroupingKeyOf(e))

----------------------------------------------------------------------------
(* The raw record: JSON values as the transport layer hands them over *)

\* A JSON value is <<tag>> or <<tag, payload>>.
JNull == <<"null">>
JStr(s) == <<"string", s>>
JNum(n) == <<"number", n>>
JBool(b) == <<"bool", b>>
JArr(xs) == <<"array", xs>>
JObj(r) == <<"object", r>>
Tag(j) == j[1]
Val(j) == j[2]

\* base[key] of a Go map that may be nil; a missing key reads as nil.
Lookup(base, key) ==
    IF IsNil(base) THEN JNull
    ELSE IF key \in DOMAIN Deref(base) THEN Deref(base)[key]
    ELSE JNull

\* utility.ManualDecoder: every fetch returns <<value, Err>>, Err being the
\* decoder's accumulated error (the set of fields that failed; {} is nil).
MapStr(base, key, Err) ==
    LET val == Lookup(base, key)
    IN  IF Tag(val) = "null" THEN <<Nil, Err>>
        ELSE IF Tag(val) = "object" THEN <<Ptr(Val(val)), Err>>
        ELSE <<Nil, Err \cup {key}>>

StringPtr(base, key, Err) ==
    LET val == Lookup(base, key)
    IN  IF Tag(val) = "null" THEN <<Nil, Err>>
        ELSE IF Tag(val) = "string" THEN <<Ptr(Val(val)), Err>>
        ELSE <<Nil, Err \cup {key}>>

BoolPtr(base, key, Err) ==
    LET val == Lookup(base, key)
    IN  IF Tag(val) = "null" THEN <<Nil, Err>>
        ELSE IF Tag(val) = "bool" THEN <<Ptr(Val(val)), Err>>
        ELSE <<Nil, Err \cup {key}>>

TimeEpochMicro(base, key, Err) ==
    LET val == Lookup(base, key)
    IN  IF Tag(val) = "null" THEN <<ZeroTime, Err>>
        ELSE IF Tag(val) = "number"
            THEN <<Unix(Val(val) \div 1000000, (Val(val) % 1000000) * 1000), Err>>
        ELSE <<ZeroTime, Err \cup {key}>>

\* m.DecodeContext: fails on a context that is no object.
DecodeContext(base) ==
    IF Tag(Lookup(base, "context")) \in {"null", "object"} THEN {} ELSE {"context"}

\* A frame as the frame decoder builds it: no source map applied yet.
DecodeStacktraceFrame(rawFrame) ==
    [Filename |-> rawFrame.Filename, Module |-> rawFrame.Module,
     Function |-> rawFrame.Function, Lineno |-> rawFrame.Lineno,
     ExcludeFromGrouping |-> rawFrame.ExcludeFromGrouping,
     LibraryFrame |-> rawFrame.LibraryFrame,
     Mappable |-> rawFrame.Mappable, SourcemapUpdated |-> FALSE]

\* m.DecodeStacktrace(input, err): <<*Stacktrace, err>>
DecodeStacktrace(input, Err) ==
    IF Tag(input) = "null" THEN <<Nil, Err>>
    ELSE IF Tag(input) # "array" THEN <<Nil, Err \cup {"stacktrace"}>>
    ELSE IF \E i \in 1..Len(Val(input)) : Tag(Val(input)[i]) # "object"
        THEN <<Nil, Err \cup {"stacktrace"}>>
    ELSE <<Ptr(MkStacktrace([i \in 1..Len(Val(input)) |->
                                DecodeStacktraceFrame(Val(Val(input)[i]))])), Err>>

----------------------------------------------------------------------------
(* DecodeEvent *)

\* line 157 / 173: the stacktrace a constructed Exception or Log starts with
InitialStacktrace == MkStacktrace(<<>>)

\* Mutant: both message and type are required.
ExceptionPresentBoth(exMsg, exType) == ~IsNil(exMsg) /\ ~IsNil(exType)

\* line 149: whether the Exception sub-object is constructed
ExceptionPresent(exMsg, exType) == ~IsNil(exMsg) \/ ~IsNil(exType)

\* line 167: whether the Log sub-object is constructed
LogPresent(logMsg) == ~IsNil(logMsg)

\* Mutant: the Event is returned along with the error.
DecodeResultPartial(e, Err) == [event |-> Ptr(e), err |-> Err]

\* lines 180-184: what DecodeEvent returns once every field was fetched
DecodeResult(e, Err) ==
    IF Err # {} THEN [event |-> Nil, err |-> Err]
    ELSE [event |-> Ptr(e), err |-> {}]

\* lines 146-163: <<e.Exception, decoder.Err>> from the exception bundle
DecodeException(ex, Err) ==
    LET exMsg  == StringPtr(ex, "message", Err)
        exType == StringPtr(ex, "type", Err)
        exSt   == DecodeStacktrace(Lookup(ex, "stacktrace"), exMsg[2] \cup exType[2])
    IN  IF ExceptionPresent(exMsg[1], exType[1])
            THEN <<Ptr([Message |-> exMsg[1], Type |-> exType[1],
                        Stacktrace |-> IF ~IsNil(exSt[1]) THEN Deref(exSt[1])
                                       ELSE InitialStacktrace]), exSt[2]>>
        ELSE <<Nil, exMsg[2] \cup exType[2]>>

\* lines 165-179: <<e.Log, decoder.Err>> from the log bundle
DecodeLog(log, Err) ==
    LET logMsg == StringPtr(log, "message", Err)
        param  == StringPtr(log, "param_message", logMsg[2])
        logSt  == DecodeStacktrace(Lookup(log, "stacktrace"), param[2])
    IN  IF LogPresent(logMsg[1])
            THEN <<Ptr([Message |-> Deref(logMsg[1]), ParamMessage |-> param[1],
                        Stacktrace |-> IF ~IsNil(logSt[1]) THEN Deref(logSt[1])
                                       ELSE InitialStacktrace]), logSt[2]>>
        ELSE <<Nil, logMsg[2]>>

\* lines 125-184, given the record `raw` (a non-nil map).  decoder.Err only
\* grows, so the error after the last fetch is the union of what each fetch
\* adds.
DecodeFields(raw) ==
    LET id      == StringPtr(raw, "id", {})
        culprit == StringPtr(raw, "culprit", {})
        ts      == TimeEpochMicro(raw, "timestamp", {})
        txId    == StringPtr(raw, "transaction_id", {})
        tx      == MapStr(raw, "transaction", {})
        sampled == BoolPtr(tx[1], "sampled", {})
        txType  == StringPtr(tx[1], "type", {})
        exMap   == MapStr(raw, "exception", {})
        logMap  == MapStr(raw, "log", {})
        exc     == DecodeException(exMap[1], exMap[2])
        lg      == DecodeLog(logMap[1], logMap[2])
    IN  DecodeResult([Id |-> id[1], Culprit |-> culprit[1], Timestamp |-> ts[1],
                      TransactionId |-> txId[1], TransactionSampled |-> sampled[1],
                      TransactionType |-> txType[1], Exception |-> exc[1],
                      Log |-> lg[1]],
                     id[2] \cup culprit[2] \cup ts[2] \cup txId[2] \cup tx[2]
                       \cup sampled[2] \cup txType[2] \cup exc[2] \cup lg[2])

\* DecodeEvent(input, cfg, err)
DecodeEvent(input, err) ==
    IF err # {} THEN [event |-> Nil, err |-> err]
    ELSE IF Tag(input) = "null"
        THEN [event |-> Nil, err |-> {"Input missing for decoding Event"}]
    ELSE IF Tag(input) # "object"
        THEN [event |-> Nil, err |-> {"invalid type for error event"}]
    ELSE IF DecodeContext(Ptr(Val(input))) # {}
        THEN [event |-> Nil, err |-> DecodeContext(Ptr(Val(input)))]
    ELSE DecodeFields(Ptr(Val(input)))

----------------------------------------------------------------------------
(* Event.Transform *)

\* Frame capability queries.
IsSourcemapApplied(fr) == fr.SourcemapUpdated
IsLibraryFrame(fr) == fr.LibraryFrame

\* Stacktrace.Transform(tctx): with a source-map mapper configured, every
\* frame the mapper resolves is marked as source-map applied.
StacktraceTransform(st, ctx) ==
    [st EXCEPT !.frames = [i \in 1..Len(st.frames) |->
        [st.frames[i] EXCEPT !.SourcemapUpdated =
            @ \/ (ctx.SmapMapper /\ st.frames[i].Mappable)]]]

\* lines 311 and 331: addException and addLog transform both stacktraces
TransformStacktraces(e, ctx) ==
    [e EXCEPT
        !.Exception = IF IsNil(@) THEN @
                      ELSE Ptr([Deref(@) EXCEPT !.Stacktrace = StacktraceTransform(@, ctx)]),
        !.Log = IF IsNil(@) THEN @
                ELSE Ptr([Deref(@) EXCEPT !.Stacktrace = StacktraceTransform(@, ctx)])]

\* The frame predicate of findSmappedNonLibraryFrame.
CulpritCandidate(fr) == IsSourcemapApplied(fr) /\ ~IsLibraryFrame(fr)

findSmappedNonLibraryFrame(frames) ==
    IF \E i \in 1..Len(frames) : CulpritCandidate(frames[i])
        THEN Ptr(frames[CHOOSE i \in 1..Len(frames) :
                        /\ CulpritCandidate(frames[i])
                        /\ \A j \in 1..(i - 1) : ~CulpritCandidate(frames[j])])
    ELSE Nil

\* lines 263-269: the frame updateCulprit settles on
CulpritFrame(e) ==
    LET fr1 == IF ~IsNil(e.Log)
                   THEN findSmappedNonLibraryFrame(Deref(e.Log).Stacktrace.frames)
               ELSE Nil
    IN  IF IsNil(fr1) /\ ~IsNil(e.Exception)
            THEN findSmappedNonLibraryFrame(Deref(e.Exception).Stacktrace.frames)
        ELSE fr1

\* lines 273-276
FormatCulprit(fr) ==
    IF ~IsNil(fr.Function) THEN fr.Filename \o sIn \o Deref(fr.Function)
    ELSE fr.Filename

\* Mutant: a culprit the client supplied is kept.
updateCulpritIfAbsent(e, ctx) ==
    IF ~ctx.SmapMapper \/ ~IsNil(e.Culprit) THEN e
    ELSE IF IsNil(CulpritFrame(e)) THEN e
    ELSE [e EXCEPT !.Culprit = Ptr(FormatCulprit(Deref(CulpritFrame(e))))]

updateCulprit(e, ctx) ==
    IF ~ctx.SmapMapper THEN e
    ELSE IF IsNil(CulpritFrame(e)) THEN e
    ELSE [e EXCEPT !.Culprit = Ptr(FormatCulprit(Deref(CulpritFrame(e))))]

\* utility.Set on a pointer value: a nil pointer leaves the key out.  A map
\* is a record of pointers, Nil standing for a key that is not in the map.
Set(m, k, val) == [m EXCEPT ![k] = val]

\* utility.Set on a map value: an empty map leaves the key out.
SetMap(m, k, sub) ==
    IF \A f \in DOMAIN sub : IsNil(sub[f]) THEN [m EXCEPT ![k] = Nil]
    ELSE [m EXCEPT ![k] = Ptr(sub)]

\* utility.TimeAsMicros: t.UnixNano() / 1000
TimeAsMicros(t) == t[1] * 1000000 + (t[2] \div 1000)

\* Mutant: an empty transaction id counts.
TransactionEmittedAnyId(e) ==
    \/ ~IsNil(e.TransactionSampled)
    \/ ~IsNil(e.TransactionType)
    \/ ~IsNil(e.TransactionId)

\* line 218
TransactionEmitted(e) ==
    \/ ~IsNil(e.TransactionSampled)
    \/ ~IsNil(e.TransactionType)
    \/ (~IsNil(e.TransactionId) /\ Deref(e.TransactionId) # sEmpty)

\* lines 219-222
TransactionFields(e) ==
    Set(Set(Set([id |-> Nil, type |-> Nil, sampled |-> Nil],
                "id", e.TransactionId), "type", e.TransactionType),
        "sampled", e.TransactionSampled)

\* Mutant: the request time replaces the Event's timestamp in every case.
ResolveTimestampAlways(e, ctx) == [e EXCEPT !.Timestamp = ctx.RequestTime]

\* lines 229-231
ResolveTimestamp(e, ctx) ==
    IF IsZero(e.Timestamp) THEN [e EXCEPT !.Timestamp = ctx.RequestTime] ELSE e

\* lines 242-257: the Event after fields() and the "error" object
EventAfterFields(e, ctx) == updateCulprit(TransformStacktraces(e, ctx), ctx)

ErrorFields(e, ctx) ==
    LET e2 == EventAfterFields(e, ctx)
    IN  Set(Set(Set([id |-> Nil, culprit |-> Nil, grouping_key |-> Nil],
                    "id", e2.Id), "culprit", e2.Culprit),
            "grouping_key", Ptr(calcGroupingKey(e2)))

\* lines 197-239: the Event when Transform returns, and the beat.Event
EventAfterTransform(e, ctx) == ResolveTimestamp(EventAfterFields(e, ctx), ctx)

TransformResult(e, ctx) ==
    LET f0 == [error |-> Ptr(ErrorFields(e, ctx)), transaction |-> Nil,
               timestamp |-> Nil]
        f1 == IF TransactionEmitted(e)
                  THEN SetMap(f0, "transaction", TransactionFields(e))
              ELSE f0
        e3 == EventAfterTransform(e, ctx)
    IN  [Fields |-> Set(f1, "timestamp", Ptr(TimeAsMicros(e3.Timestamp))),
         Timestamp |-> e3.Timestamp]

\* Mutant: an empty stacktrace is counted too.
CountsStacktraceEmpty(st) == len(st) >= 0

\* addStacktraceCounter: whether the stacktrace is counted, and by how much
CountsStacktrace(st) == len(st) > 0
FramesAdded(st) == len(st)

\* The stacktrace a counter position works on.
CounterStacktrace(e, p) ==
    IF p \in {"exc", "excFrames"} THEN Deref(e.Exception).Stacktrace
    ELSE Deref(e.Log).Stacktrace

\* lines 190-195: the position after `p` at which Transform next touches
\* shared state.
AfterPc(e, p) ==
    IF p = "transform" /\ ~IsNil(e.Exception)
          /\ CountsStacktrace(Deref(e.Exception).Stacktrace) THEN "exc"
    ELSE IF p \in {"transform", "excFrames"} /\ ~IsNil(e.Log)
          /\ CountsStacktrace(Deref(e.Log).Stacktrace) THEN "log"
    ELSE "fields"

----------------------------------------------------------------------------
(* Inputs *)

RECURSIVE SeqsUpTo(_, _)
SeqsUpTo(S, n) ==
    IF n = 0 THEN {<<>>}
    ELSE SeqsUpTo(S, n - 1) \cup
         {Append(q, x) : q \in {r \in SeqsUpTo(S, n - 1) : Len(r) = n - 1}, x \in S}

RawFrame(file, mod, fun, line, excl, lib, mappable) ==
    JObj([Filename |-> file, Module |-> mod, Function |-> fun, Lineno |-> line,
          ExcludeFromGrouping |-> excl, LibraryFrame |-> lib, Mappable |-> mappable])

RawRecord(id, culprit, ts, txId, tx, ex, lg, ctx) ==
    JObj([id |-> id, culprit |-> culprit, timestamp |-> ts, transaction_id |-> txId,
          transaction |-> tx, exception |-> ex, log |-> lg, context |-> ctx])

RawException(msg, typ, st) == JObj([message |-> msg, type |-> typ, stacktrace |-> st])
RawLog(msg, param, st) == JObj([message |-> msg, param_message |-> param, stacktrace |-> st])

\* One request: the arguments of DecodeEvent and the request's configuration.
Call(input, err, smap) == [input |-> input, err |-> err, smap |-> smap]

RawStacks(F, n) == {JArr(q) : q \in SeqsUpTo(F, n)}

\* Frames that differ in what they feed into the grouping key.
GroupingFrames ==
    {RawFrame(sA, Nil, Nil, 0, FALSE, FALSE, FALSE),
     RawFrame(sA, Ptr(sM), Ptr(sF), 7, FALSE, FALSE, FALSE),
     RawFrame(sB, Ptr(sM), Nil, 300, FALSE, FALSE, FALSE),
     RawFrame(sB, Nil, Nil, 7, TRUE, FALSE, FALSE)}

\* The Log's stacktrace: a frame that counts and one excluded from grouping.
GroupingLogFrames ==
    {RawFrame(sA, Nil, Nil, 0, FALSE, FALSE, FALSE),
     RawFrame(sB, Nil, Nil, 7, TRUE, FALSE, FALSE)}

GroupingInputs ==
    {Call(RawRecord(JNull, JNull, JNull, JNull, JNull, ex, lg, JNull), {}, FALSE) :
        ex \in {JNull} \cup
               {RawException(m, t, st) :
                    m \in {JNull, JStr(sM)}, t \in {JNull, JStr(sEmpty), JStr(sT)},
                    st \in RawStacks(GroupingFrames, MaxFrames)},
        lg \in {JNull} \cup
               {RawLog(JStr(sL), pm, st) :
                    pm \in {JNull, JStr(sP)},
                    st \in RawStacks(GroupingLogFrames, MaxFrames)}}

\* Frames that differ in what the culprit search sees.
CulpritFrames ==
    {RawFrame(sA, Nil, Ptr(sF), 1, FALSE, FALSE, TRUE),
     RawFrame(sB, Nil, Nil, 1, FALSE, FALSE, TRUE),
     RawFrame(sB, Nil, Ptr(sG), 1, FALSE, TRUE, TRUE),
     RawFrame(sA, Nil, Ptr(sG), 1, FALSE, FALSE, FALSE)}

\* The Log's stacktrace: a frame the sourcemap applies to and one it does not.
CulpritLogFrames ==
    {RawFrame(sB, Nil, Nil, 1, FALSE, FALSE, TRUE),
     RawFrame(sA, Nil, Ptr(sG), 1, FALSE, FALSE, FALSE)}

CulpritInputs ==
    {Call(RawRecord(JNull, c, JNull, JNull, JNull, ex, lg, JNull), {}, smap) :
        c \in {JNull, JStr(sG)}, smap \in BOOLEAN,
        ex \in {JNull} \cup {RawException(JStr(sM), JNull, st) :
                                st \in RawStacks(CulpritFrames, MaxFrames)},
        lg \in {JNull} \cup {RawLog(JStr(sL), JNull, st) :
                                st \in RawStacks(CulpritLogFrames, MaxFrames)}}

\* Transaction linkage and timestamp.
TransformInputs ==
    {Call(RawRecord(id, JNull, ts, txId, tx, RawException(JStr(sM), JNull, JNull),
                    JNull, JNull), {}, FALSE) :
        id \in {JNull, JStr(sI)},
        ts \in {JNull, JNum(0), JNum(1500000), JNum(2000001)},
        txId \in {JNull, JStr(sEmpty), JStr(sT)},
        tx \in {JNull} \cup
               {JObj([sampled |-> sm, type |-> ty]) :
                    sm \in {JNull, JBool(FALSE), JBool(TRUE)},
                    ty \in {JNull, JStr(sEmpty), JStr(sQ)}}}

\* Records with absent, empty and wrongly typed fields.
DecodeStacks ==
    {JNull, JArr(<<>>), JArr(<<RawFrame(sA, Nil, Nil, 1, FALSE, FALSE, FALSE)>>),
     JStr(sA), JArr(<<JNum(1)>>)}

DecodeRecords ==
    {RawRecord(id, JNull, ts, JNull, JNull, ex, lg, ctx) :
        id \in {JNull, JStr(sI), JNum(1)},
        ts \in {JNull, JNum(1500000), JStr(sA)},
        ctx \in {JNull, JStr(sA)},
        ex \in {JNull, JStr(sA)} \cup
               {RawException(m, t, st) :
                    m \in {JNull, JStr(sEmpty), JStr(sM), JNum(1)},
                    t \in {JNull, JStr(sEmpty), JNum(1)},
                    st \in DecodeStacks},
        lg \in {JNull} \cup
               {RawLog(m, JNull, st) :
                    m \in {JNull, JStr(sEmpty), JNum(1)},
                    st \in DecodeStacks}}

DecodeInputs ==
    {Call(r, {}, FALSE) : r \in DecodeRecords}
    \cup {Call(x, {}, FALSE) : x \in {JNull, JStr(sA), JArr(<<>>)}}
    \cup {Call(x, {"upstream"}, FALSE) :
            x \in {JNull, RawRecord(JNull, JNull, JNull, JNull, JNull,
                                    RawException(JStr(sM), JNull, JNull), JNull, JNull)}}

Inputs == DecodeInputs \cup GroupingInputs \cup CulpritInputs \cup TransformInputs

\* The two-event comparison: Events that agree or differ in type, messages,
\* param message and frames.
PairFrames ==
    {RawFrame(sA, Nil, Nil, 0, FALSE, FALSE, FALSE),
     RawFrame(sB, Nil, Nil, 7, TRUE, FALSE, FALSE)}

PairLogFrames == {RawFrame(sA, Nil, Nil, 0, FALSE, FALSE, FALSE)}

PairInputs ==
    {Call(RawRecord(JNull, JNull, JNull, JNull, JNull, ex, lg, JNull), {}, FALSE) :
        ex \in {JNull} \cup
               {RawException(m, t, st) :
                    m \in {JStr(sM), JStr(sN)}, t \in {JNull, JStr(sT)},
                    st \in RawStacks(PairFrames, MaxPairFrames)},
        lg \in {JNull} \cup
               {RawLog(JStr(sL), pm, st) :
                    pm \in {JNull, JStr(sP)},
                    st \in RawStacks(PairLogFrames, MaxPairFrames)}}

\* Concurrent handlers: Events that differ in how many stacktraces and
\* frames they carry.
ConcFrame == RawFrame(sA, Nil, Nil, 1, FALSE, FALSE, FALSE)

ConcInputs ==
    {Call(RawRecord(JNull, JNull, JNull, JNull, JNull, ex, lg, JNull), {}, FALSE) :
        ex \in {JNull, RawException(JStr(sM), JNull, JArr(<<>>)),
                RawException(JStr(sM), JNull, JArr(<<ConcFrame, ConcFrame>>))},
        lg \in {JNull, RawLog(JStr(sL), JNull, JArr(<<ConcFrame>>))}}

----------------------------------------------------------------------------
(* The handlers *)

NoCall == Call(JNull, {}, FALSE)
NoContext == [RequestTime |-> ZeroTime, SmapMapper |-> FALSE]

InitOn(H) ==
    /\ pc = [h \in H |-> "idle"]
    /\ args = [h \in H |-> NoCall]
    /\ tctx = [h \in H |-> NoContext]
    /\ event = [h \in H |-> Nil]
    /\ derr = [h \in H |-> {}]
    /\ gkey = [h \in H |-> newGroupingKey]
    /\ doc = [h \in H |-> Nil]
    /\ prev = [h \in H |-> Nil]
    /\ transformations = 0
    /\ stacktraceCounter = 0
    /\ frameCounter = 0
    /\ completed = [n |-> 0, stacks |-> 0, frames |-> 0]
    /\ clock = 1

\* History: the stacktraces and frames of an Event, counted from its shape.
ShapeStacks(e) ==
    (IF ~IsNil(e.Exception) /\ Deref(e.Exception).Stacktrace.frames # <<>> THEN 1 ELSE 0)
    + (IF ~IsNil(e.Log) /\ Deref(e.Log).Stacktrace.frames # <<>> THEN 1 ELSE 0)
ShapeFrames(e) ==
    (IF ~IsNil(e.Exception) THEN Len(Deref(e.Exception).Stacktrace.frames) ELSE 0)
    + (IF ~IsNil(e.Log) THEN Len(Deref(e.Log).Stacktrace.frames) ELSE 0)

\* A handler takes a request.  A handler that serves a second request keeps
\* what the first one produced in prev.
Receive(h, In, again) ==
    /\ \/ pc[h] = "idle"
       \/ again /\ pc[h] \in {"done", "rejected"} /\ IsNil(prev[h])
    /\ \E c \in In :
        /\ args' = [args EXCEPT ![h] = c]
        /\ tctx' = [tctx EXCEPT ![h] = [RequestTime |-> Unix(clock, 1500),
                                        SmapMapper |-> c.smap]]
    /\ prev' = [prev EXCEPT ![h] =
                    IF pc[h] = "idle" THEN Nil
                    ELSE Ptr([event |-> event[h], doc |-> doc[h], gkey |-> gkey[h]])]
    /\ pc' = [pc EXCEPT ![h] = "decode"]
    /\ event' = [event EXCEPT ![h] = Nil]
    /\ derr' = [derr EXCEPT ![h] = {}]
    /\ gkey' = [gkey EXCEPT ![h] = newGroupingKey]
    /\ doc' = [doc EXCEPT ![h] = Nil]
    /\ clock' = clock + 1
    /\ UNCHANGED <<transformations, stacktraceCounter, frameCounter, completed>>

\* The handler calls DecodeEvent and rejects the record on an error.
Decode(h) ==
    /\ pc[h] = "decode"
    /\ LET r == DecodeEvent(args[h].input, args[h].err)
       IN  /\ event' = [event EXCEPT ![h] = r.event]
           /\ derr' = [derr EXCEPT ![h] = r.err]
           /\ pc' = [pc EXCEPT ![h] = IF IsNil(r.event) THEN "rejected" ELSE "transform"]
    /\ UNCHANGED <<args, tctx, gkey, doc, prev, transformations, stacktraceCounter,
                   frameCounter, completed, clock>>

\* line 188: transformations.Inc()
TransformInc(h) ==
    /\ pc[h] = "transform"
    /\ transformations' = transformations + 1
    /\ pc' = [pc EXCEPT ![h] = AfterPc(Deref(event[h]), "transform")]
    /\ UNCHANGED <<args, tctx, event, derr, gkey, doc, prev, stacktraceCounter,
                   frameCounter, completed, clock>>

\* line 413: stacktraceCounter.Inc()
StacktraceCounterInc(h) ==
    /\ pc[h] \in {"exc", "log"}
    /\ stacktraceCounter' = stacktraceCounter + 1
    /\ pc' = [pc EXCEPT ![h] = IF pc[h] = "exc" THEN "excFrames" ELSE "logFrames"]
    /\ UNCHANGED <<args, tctx, event, derr, gkey, doc, prev, transformations,
                   frameCounter, completed, clock>>

\* line 414: frameCounter.Add(int64(frames))
FrameCounterAdd(h) ==
    /\ pc[h] \in {"excFrames", "logFrames"}
    /\ frameCounter' = frameCounter + FramesAdded(CounterStacktrace(Deref(event[h]), pc[h]))
    /\ pc' = [pc EXCEPT ![h] = AfterPc(Deref(event[h]), pc[h])]
    /\ UNCHANGED <<args, tctx, event, derr, gkey, doc, prev, transformations,
                   stacktraceCounter, completed, clock>>

\* lines 197-239: the rest of Transform, which touches only the Event
TransformFields(h) ==
    /\ pc[h] = "fields"
    /\ LET e == Deref(event[h])
       IN  /\ doc' = [doc EXCEPT ![h] = Ptr(TransformResult(e, tctx[h]))]
           /\ event' = [event EXCEPT ![h] = Ptr(EventAfterTransform(e, tctx[h]))]
           /\ gkey' = [gkey EXCEPT ![h] = GroupingKeyOf(EventAfterFields(e, tctx[h]))]
           /\ completed' = [n |-> completed.n + 1,
                            stacks |-> completed.stacks + ShapeStacks(e),
                            frames |-> completed.frames + ShapeFrames(e)]
    /\ pc' = [pc EXCEPT ![h] = "done"]
    /\ UNCHANGED <<args, tctx, derr, prev, transformations, stacktraceCounter,
                   frameCounter, clock>>

NextOn(H, In, again) ==
    \E h \in H :
        \/ Receive(h, In, again)
        \/ Decode(h)
        \/ TransformInc(h)
        \/ StacktraceCounterInc(h)
        \/ FrameCounterAdd(h)
        \/ TransformFields(h)

Handlers == 1..NumHandlers

\* One handler, one request, every family of inputs.
Init == InitOn({1})
Next == NextOn({1}, Inputs, FALSE)
Spec == Init /\ [][Next]_vars

\* One handler serving two requests, whose results are compared.
NextPair == NextOn({1}, PairInputs, TRUE)
SpecPair == Init /\ [][NextPair]_vars

\* Concurrent handlers, one request each.
InitConc == InitOn(Handlers)
NextConc == NextOn(Handlers, ConcInputs, FALSE)
SpecConc == InitConc /\ [][NextConc]_vars

----------------------------------------------------------------------------
(* Properties: vocabulary *)

IsPrefix(p, q) == Len(p) <= Len(q) /\ SubSeq(q, 1, Len(p)) = p

Finished(h) == pc[h] = "done"

\* The frames of a sub-object's stacktrace; none when the sub-object is absent.
FramesOf(sub) == IF IsNil(sub) THEN <<>> ELSE Deref(sub).Stacktrace.frames

Included(fr) == ~fr.ExcludeFromGrouping
NonExcluded(frs) == SelectSeq(frs, Included)

\* What a frame brings into the key: its grouping fields.
Signature(fr) == <<fr.Module, fr.Filename, fr.Function, fr.Lineno>>
Signatures(frs) == [i \in 1..Len(frs) |-> Signature(frs[i])]

TypeOf(e) == IF IsNil(e.Exception) THEN Nil ELSE Deref(e.Exception).Type
ParamOf(e) == IF IsNil(e.Log) THEN Nil ELSE Deref(e.Log).ParamMessage

\* The io.WriteString calls of the type and the param message, and of a
\* sequence of frames.
HeadWrites(e) == AddHeads(newGroupingKey, e).writes
FrameWrites(frs) == AddFrames(newGroupingKey, frs).writes

\* Some exception type, param message or non-excluded frame of the given
\* frames exists.
Structural(e, frs) ==
    ~IsNil(TypeOf(e)) \/ ~IsNil(ParamOf(e)) \/ NonExcluded(frs) # <<>>

----------------------------------------------------------------------------
(* C10: frame contribution *)

\* The feeds the claim describes for a sequence of frames: module else
\* filename, then function else the line number in decimal.
RECURSIVE ClaimedFrameWrites(_)
ClaimedFrameWrites(frs) ==
    IF frs = <<>> THEN <<>>
    ELSE (IF Head(frs).ExcludeFromGrouping THEN <<>>
          ELSE << IF ~IsNil(Head(frs).Module) THEN Deref(Head(frs).Module)
                  ELSE Head(frs).Filename,
                  IF ~IsNil(Head(frs).Function) THEN Deref(Head(frs).Function)
                  ELSE Itoa(Head(frs).Lineno) >>)
         \o ClaimedFrameWrites(Tail(frs))

\* C10: for every frame of the active stacktrace, in order, an excluded
\* frame feeds nothing and every other frame feeds module-else-filename and
\* then function-else-line-number-in-decimal, after the exception type and
\* the log param message.
C10_FrameContribution ==
    \A h \in DOMAIN pc : Finished(h) =>
        LET e == Deref(event[h])
        IN  IsPrefix(HeadWrites(e) \o ClaimedFrameWrites(ActiveStacktrace(e).frames),
                     gkey[h].writes)

----------------------------------------------------------------------------
(* C2: stacktrace preference *)

LogCase(e) ==
    /\ ~IsNil(e.Exception) /\ ~IsNil(e.Log)
    /\ FramesOf(e.Exception) = <<>> /\ FramesOf(e.Log) # <<>>

ExceptionCase(e) == ~IsNil(e.Exception) /\ FramesOf(e.Exception) # <<>>

\* The Exception's frames are fed, followed by at most the Exception's
\* message.
ExceptionFramesOnly(e, w) ==
    LET base == HeadWrites(e) \o FrameWrites(FramesOf(e.Exception))
    IN  \/ w = base
        \/ /\ ~IsNil(Deref(e.Exception).Message)
           /\ w = Append(base, Deref(Deref(e.Exception).Message))

\* C2 as stated: with an empty Exception stacktrace and a non-empty Log
\* stacktrace the Log's frames are fed and no message follows; with a
\* non-empty Exception stacktrace the Exception's frames are fed and the
\* Log's never.
C2_AsStated ==
    \A h \in DOMAIN pc : Finished(h) =>
        LET e == Deref(event[h])
            w == gkey[h].writes
        IN  /\ LogCase(e) => w = HeadWrites(e) \o FrameWrites(FramesOf(e.Log))
            /\ ExceptionCase(e) => ExceptionFramesOnly(e, w)

\* C2 amended: in the first case the Log's frames are fed right after the
\* type and the param message, and no message follows them provided the
\* type, the param message or a non-excluded Log frame exists.
C2_StacktracePreference ==
    \A h \in DOMAIN pc : Finished(h) =>
        LET e == Deref(event[h])
            w == gkey[h].writes
            logFed == HeadWrites(e) \o FrameWrites(FramesOf(e.Log))
        IN  /\ LogCase(e) =>
                /\ IsPrefix(logFed, w)
                /\ Structural(e, FramesOf(e.Log)) => w = logFed
            /\ ExceptionCase(e) => ExceptionFramesOnly(e, w)

\* The Log's frames were used: empty Exception stacktrace, and a Log whose
\* frames fed something that differs from what its message would feed.
C2_Witness ==
    \E h \in DOMAIN pc :
        /\ Finished(h) /\ LogCase(Deref(event[h]))
        /\ NonExcluded(FramesOf(Deref(event[h]).Log)) # <<>>
        /\ IsNil(TypeOf(Deref(event[h]))) /\ IsNil(ParamOf(Deref(event[h])))
        /\ Len(gkey[h].writes) = 2 * Len(NonExcluded(FramesOf(Deref(event[h]).Log)))

----------------------------------------------------------------------------
(* C3: fallback law *)

\* The message the fallback feeds, as a sequence of at most one write.
FallbackMessage(e) ==
    IF ~IsNil(e.Exception)
        THEN IF ~IsNil(Deref(e.Exception).Message)
                 THEN <<Deref(Deref(e.Exception).Message)>>
             ELSE <<>>
    ELSE IF ~IsNil(e.Log) THEN <<Deref(e.Log).Message>>
    ELSE <<>>

\* C3: a message is fed if and only if no exception type, no param message
\* and no non-excluded frame of the active stacktrace was fed; it is then
\* the Exception's message when an Exception exists, else the Log's; an
\* Event with neither yields the digest of the empty input.
C3_FallbackLaw ==
    \A h \in DOMAIN pc : Finished(h) =>
        LET e == Deref(event[h])
            w == gkey[h].writes
            act == ActiveStacktrace(e).frames
        IN  /\ Structural(e, act) => w = HeadWrites(e) \o FrameWrites(act)
            /\ ~Structural(e, act) => w = FallbackMessage(e)
            /\ (IsNil(e.Exception) /\ IsNil(e.Log)) =>
                    /\ gkey[h].hash = <<>>
                    /\ Deref(Deref(doc[h]).Fields.error).grouping_key
                         = Ptr(String(newGroupingKey))

\* An Exception without type, without frames that count, beside a Log with
\* a message: the Exception's message alone was fed.
C3_Witness ==
    \E h \in DOMAIN pc :
        /\ Finished(h)
        /\ ~IsNil(Deref(event[h]).Exception) /\ ~IsNil(Deref(event[h]).Log)
        /\ ~Structural(Deref(event[h]), ActiveStacktrace(Deref(event[h])).frames)
        /\ ActiveStacktrace(Deref(event[h])).frames # <<>>
        /\ gkey[h].writes = <<sM>>

----------------------------------------------------------------------------
(* C1: grouping-key equality of two Events *)

\* The handler has transformed two Events: the previous one and this one.
HasPair(h) == Finished(h) /\ ~IsNil(prev[h]) /\ ~IsNil(Deref(prev[h]).doc)
FirstEvent(h) == Deref(Deref(prev[h]).event)
SecondEvent(h) == Deref(event[h])
FirstKey(h) == Deref(Deref(Deref(prev[h]).doc).Fields.error).grouping_key
SecondKey(h) == Deref(Deref(doc[h]).Fields.error).grouping_key

\* Both Events carry an exception type, and the same one.
SameType(e1, e2) == ~IsNil(TypeOf(e1)) /\ TypeOf(e1) = TypeOf(e2)

\* The non-excluded frames agree, in the Exceptions and in the Logs.
SameFrames(e1, e2) ==
    /\ Signatures(NonExcluded(FramesOf(e1.Exception)))
         = Signatures(NonExcluded(FramesOf(e2.Exception)))
    /\ Signatures(NonExcluded(FramesOf(e1.Log)))
         = Signatures(NonExcluded(FramesOf(e2.Log)))

\* The non-excluded frames of the stacktraces the keys are computed from agree.
SameActiveFrames(e1, e2) ==
    Signatures(NonExcluded(ActiveStacktrace(e1).frames))
      = Signatures(NonExcluded(ActiveStacktrace(e2).frames))

\* C1 as stated: two Events with the same exception type and identical
\* non-excluded frames have the same grouping key, whatever else differs.
C1_AsStated ==
    \A h \in DOMAIN pc : HasPair(h) =>
        (SameType(FirstEvent(h), SecondEvent(h))
           /\ SameFrames(FirstEvent(h), SecondEvent(h))
         => FirstKey(h) = SecondKey(h))

\* C1 amended: two Events with the same exception type, the same log param
\* message (or none in both) and identical non-excluded frames in the
\* stacktrace the key is computed from have the same grouping key,
\* whatever their ids, timestamps and messages.
C1_GroupingKeyEquality ==
    \A h \in DOMAIN pc : HasPair(h) =>
        (SameType(FirstEvent(h), SecondEvent(h))
           /\ ParamOf(FirstEvent(h)) = ParamOf(SecondEvent(h))
           /\ SameActiveFrames(FirstEvent(h), SecondEvent(h))
         => FirstKey(h) = SecondKey(h))

\* Two Events of one type and one frame whose messages and timestamps
\* differ, the second without the Log the first has, got one key.
C1_Witness ==
    \E h \in DOMAIN pc :
        /\ HasPair(h)
        /\ SameType(FirstEvent(h), SecondEvent(h))
        /\ ParamOf(FirstEvent(h)) = ParamOf(SecondEvent(h))
        /\ SameActiveFrames(FirstEvent(h), SecondEvent(h))
        /\ NonExcluded(ActiveStacktrace(FirstEvent(h)).frames) # <<>>
        /\ Deref(FirstEvent(h).Exception).Message
             # Deref(SecondEvent(h).Exception).Message
        /\ FirstEvent(h).Timestamp # SecondEvent(h).Timestamp
        /\ ~IsNil(FirstEvent(h).Log) /\ IsNil(SecondEvent(h).Log)
        /\ FirstKey(h) = SecondKey(h)

----------------------------------------------------------------------------
(* What the client sent *)

\* The record of a request whose decoding went past the input checks.
RawOf(h) == Val(args[h].input)
Bundle(j) == IF Tag(j) = "object" THEN Ptr(Val(j)) ELSE Nil
Sent(j) == Tag(j) # "null"
\* The pointer a well-typed raw value decodes to.
PtrOf(j) == IF Sent(j) THEN Ptr(Val(j)) ELSE Nil

----------------------------------------------------------------------------
(* C4: culprit resolution *)

\* The frames in the order the claim searches them: the Log's, then the
\* Exception's.
SearchOrder(e) == FramesOf(e.Log) \o FramesOf(e.Exception)
Matching(frs) ==
    {i \in 1..Len(frs) : frs[i].SourcemapUpdated /\ ~frs[i].LibraryFrame}
FirstMatch(frs) == frs[CHOOSE i \in Matching(frs) : \A j \in Matching(frs) : i <= j]
CulpritText(fr) ==
    IF IsNil(fr.Function) THEN fr.Filename ELSE fr.Filename \o sIn \o Deref(fr.Function)

\* C4: with a source-map mapper the culprit becomes the text of the first
\* source-mapped non-library frame, the Log's frames searched before the
\* Exception's, whatever the client supplied; without a mapper or a match
\* it stays what the client supplied; error.culprit is the resulting value.
C4_CulpritResolution ==
    \A h \in DOMAIN pc : Finished(h) =>
        LET e == Deref(event[h])
            frs == SearchOrder(e)
        IN  /\ e.Culprit =
                 IF tctx[h].SmapMapper /\ Matching(frs) # {}
                     THEN Ptr(CulpritText(FirstMatch(frs)))
                 ELSE PtrOf(RawOf(h).culprit)
            /\ Deref(Deref(doc[h]).Fields.error).culprit = e.Culprit

\* The client's culprit "g" was replaced by the Log's frame "b" although
\* the Exception has a matching frame "a in f" as well.
C4_Witness ==
    \E h \in DOMAIN pc :
        /\ Finished(h) /\ tctx[h].SmapMapper
        /\ RawOf(h).culprit = JStr(sG)
        /\ Deref(event[h]).Culprit = Ptr(sB)
        /\ Matching(FramesOf(Deref(event[h]).Exception)) # {}
        /\ FirstMatch(FramesOf(Deref(event[h]).Exception)).Filename = sA

----------------------------------------------------------------------------
(* C5: no partial-success Event *)

Malformed(st) ==
    \/ Tag(st) \notin {"null", "array"}
    \/ Tag(st) = "array" /\ \E i \in 1..Len(Val(st)) : Tag(Val(st)[i]) # "object"

WrongFields(b, strs, bools, maps) ==
    {k \in strs : Tag(Lookup(b, k)) \notin {"null", "string"}}
    \cup {k \in bools : Tag(Lookup(b, k)) \notin {"null", "bool"}}
    \cup {k \in maps : Tag(Lookup(b, k)) \notin {"null", "object"}}

\* The fields of the record that cannot be decoded, the stacktraces being
\* looked at when their Exception or Log is constructed.
FailingFields(R) ==
    LET ex == Bundle(R.exception)
        lg == Bundle(R.log)
        exBuilt == Tag(Lookup(ex, "message")) = "string" \/ Tag(Lookup(ex, "type")) = "string"
        lgBuilt == Tag(Lookup(lg, "message")) = "string"
    IN  WrongFields(Ptr(R), {"id", "culprit", "transaction_id"}, {},
                    {"transaction", "exception", "log"})
        \cup (IF Tag(R.timestamp) \notin {"null", "number"} THEN {"timestamp"} ELSE {})
        \cup WrongFields(Bundle(R.transaction), {"type"}, {"sampled"}, {})
        \cup WrongFields(ex, {"message", "type"}, {}, {})
        \cup WrongFields(lg, {"message"}, {}, {})
        \cup (IF lgBuilt THEN WrongFields(lg, {"param_message"}, {}, {}) ELSE {})
        \cup (IF exBuilt /\ Malformed(Lookup(ex, "stacktrace")) THEN {"stacktrace"} ELSE {})
        \cup (IF lgBuilt /\ Malformed(Lookup(lg, "stacktrace")) THEN {"stacktrace"} ELSE {})

ExpectedError(c) ==
    IF c.err # {} THEN c.err
    ELSE IF Tag(c.input) = "null" THEN {"Input missing for decoding Event"}
    ELSE IF Tag(c.input) # "object" THEN {"invalid type for error event"}
    ELSE IF Tag(Val(c.input).context) \notin {"null", "object"} THEN {"context"}
    ELSE FailingFields(Val(c.input))

Decoded(h) == pc[h] \notin {"idle", "decode"}

----------------------------------------------------------------------------
(* C6: presence rule *)

\* C6: in a returned Event the Exception is present iff the raw exception
\* bundle has a non-null message or type, the Log iff the raw log bundle has
\* a non-null message, and a present Exception or Log has a non-null
\* stacktrace.
C6_PresenceRule ==
    \A h \in DOMAIN pc : (Decoded(h) /\ ~IsNil(event[h])) =>
        LET e == Deref(event[h])
            ex == Bundle(RawOf(h).exception)
            lg == Bundle(RawOf(h).log)
        IN  /\ ~IsNil(e.Exception) <=>
                  (Sent(Lookup(ex, "message")) \/ Sent(Lookup(ex, "type")))
            /\ ~IsNil(e.Log) <=> Sent(Lookup(lg, "message"))
            /\ ~IsNil(e.Exception) => ~Deref(e.Exception).Stacktrace.null
            /\ ~IsNil(e.Log) => ~Deref(e.Log).Stacktrace.null

\* An exception bundle with an empty message, no type and no stacktrace
\* gave an Exception with an empty, non-null stacktrace; an empty log
\* message gave a Log.
C6_Witness ==
    \E h \in DOMAIN pc :
        /\ Decoded(h) /\ ~IsNil(event[h])
        /\ Lookup(Bundle(RawOf(h).exception), "message") = JStr(sEmpty)
        /\ ~Sent(Lookup(Bundle(RawOf(h).exception), "type"))
        /\ ~Sent(Lookup(Bundle(RawOf(h).exception), "stacktrace"))
        /\ ~IsNil(Deref(event[h]).Exception)
        /\ Deref(Deref(event[h]).Exception).Stacktrace = MkStacktrace(<<>>)
        /\ Lookup(Bundle(RawOf(h).log), "message") = JStr(sEmpty)
        /\ ~IsNil(Deref(event[h]).Log)

----------------------------------------------------------------------------
(* C7: transaction emission *)

\* C7: the document has a transaction object iff the client sent
\* transaction.sampled, transaction.type or a non-empty transaction_id, and
\* the object holds exactly those of id, type and sampled that were sent.
C7_TransactionEmission ==
    \A h \in DOMAIN pc : Finished(h) =>
        LET tx == Bundle(RawOf(h).transaction)
            id == RawOf(h).transaction_id
            emitted == \/ Sent(Lookup(tx, "sampled"))
                       \/ Sent(Lookup(tx, "type"))
                       \/ (Sent(id) /\ Val(id) # sEmpty)
            out == Deref(doc[h]).Fields.transaction
        IN  /\ ~IsNil(out) <=> emitted
            /\ emitted => Deref(out) = [id |-> PtrOf(id),
                                        type |-> PtrOf(Lookup(tx, "type")),
                                        sampled |-> PtrOf(Lookup(tx, "sampled"))]

\* sampled = false alone gave a transaction object holding only sampled.
C7_Witness ==
    \E h \in DOMAIN pc :
        /\ Finished(h)
        /\ Deref(doc[h]).Fields.transaction
             = Ptr([id |-> Nil, type |-> Nil, sampled |-> Ptr(FALSE)])

\* An empty transaction id alone gave no transaction object.
C7_WitnessOmitted ==
    \E h \in DOMAIN pc :
        /\ Finished(h)
        /\ RawOf(h).transaction_id = JStr(sEmpty)
        /\ IsNil(Deref(doc[h]).Fields.transaction)

----------------------------------------------------------------------------
(* C8: timestamp fallback *)

InTransform(h) == pc[h] \in {"transform", "exc", "excFrames", "log", "logFrames", "fields"}

\* C8: a record without timestamp decodes to an Event with the zero
\* timestamp, which Transform replaces by the request time T: the document
\* carries T and T in microseconds; a record with a timestamp yields that
\* timestamp, whatever T is.
C8_TimestampFallback ==
    \A h \in DOMAIN pc :
        LET ts == RawOf(h).timestamp
        IN  /\ (InTransform(h) /\ ~Sent(ts)) => Deref(event[h]).Timestamp = ZeroTime
            /\ (Finished(h) /\ ~Sent(ts)) =>
                  /\ Deref(doc[h]).Timestamp = tctx[h].RequestTime
                  /\ Deref(doc[h]).Fields.timestamp
                       = Ptr(tctx[h].RequestTime[1] * 1000000
                               + (tctx[h].RequestTime[2] \div 1000))
            /\ (Finished(h) /\ Sent(ts)) =>
                  /\ Deref(doc[h]).Timestamp # tctx[h].RequestTime
                  /\ Deref(doc[h]).Timestamp[1] * 1000000000 + Deref(doc[h]).Timestamp[2]
                       = Val(ts) * 1000
                  /\ Deref(doc[h]).Fields.timestamp = Ptr(Val(ts))

\* A record without timestamp, received at 1 s + 1500 ns, gave a document
\* stamped with that time, 1000001 us.
C8_Witness ==
    \E h \in DOMAIN pc :
        /\ Finished(h) /\ ~Sent(RawOf(h).timestamp)
        /\ Deref(doc[h]).Timestamp = Unix(1, 1500)
        /\ Deref(doc[h]).Fields.timestamp = Ptr(1000001)

----------------------------------------------------------------------------
(* C9: counters under concurrency *)

RECURSIVE SumOver(_, _)
SumOver(f, S) ==
    IF S = {} THEN 0
    ELSE LET x == CHOOSE y \in S : TRUE IN f[x] + SumOver(f, S \ {x})

\* What a handler inside Transform has added to the counters so far.
StacksSoFar(h) ==
    LET e == Deref(event[h])
        exc == IF FramesOf(e.Exception) # <<>> THEN 1 ELSE 0
    IN  CASE pc[h] = "excFrames" -> 1
          [] pc[h] = "log" -> exc
          [] pc[h] = "logFrames" -> exc + 1
          [] pc[h] = "fields" -> ShapeStacks(e)
          [] OTHER -> 0

FramesSoFar(h) ==
    LET e == Deref(event[h])
    IN  CASE pc[h] \in {"log", "logFrames"} -> Len(FramesOf(e.Exception))
          [] pc[h] = "fields" -> ShapeFrames(e)
          [] OTHER -> 0

PastInc(h) == pc[h] \in {"exc", "excFrames", "log", "logFrames", "fields"}

\* Every counter equals what the returned Transform calls account for plus
\* what the calls in progress have added so far.
CountersExact ==
    /\ transformations = completed.n + Cardinality({h \in DOMAIN pc : PastInc(h)})
    /\ stacktraceCounter
         = completed.stacks + SumOver([h \in DOMAIN pc |-> StacksSoFar(h)], DOMAIN pc)
    /\ frameCounter
         = completed.frames + SumOver([h \in DOMAIN pc |-> FramesSoFar(h)], DOMAIN pc)

CountersMonotone ==
    /\ transformations' >= transformations
    /\ stacktraceCounter' >= stacktraceCounter
    /\ frameCounter' >= frameCounter

\* C9: under every interleaving the counters have grown by exactly the
\* number of Transform calls, of non-empty stacktraces and of frames of the
\* Events transformed, and no counter ever decreases.
C9_Counters == []CountersExact /\ [][CountersMonotone]_vars

\* Every handler has transformed an Event with two non-empty stacktraces
\* of three frames in all, and the counters show it.
C9_Witness ==
    /\ \A h \in DOMAIN pc : Finished(h) /\ ShapeStacks(Deref(event[h])) = 2
    /\ transformations = Cardinality(DOMAIN pc)
    /\ stacktraceCounter = 2 * Cardinality(DOMAIN pc)
    /\ frameCounter = 3 * Cardinality(DOMAIN pc)
    /\ Cardinality(DOMAIN pc) >= 2

====
